---- MODULE Spec2Model ----
(***************************************************************************)
(* Authentication and authorization core of the FastAPI boilerplate:       *)
(* password hashing with length normalisation (app/core/security.py),      *)
(* JWT issuance and validation (app/core/security.py), the policy layer    *)
(* (app/core/policies.py) and the protected users / files routes.          *)
(*                                                                         *)
(* The specifications share the variables:                                 *)
(*   SpecPassword  get_password_hash / verify_password                     *)
(*   SpecPolicy    Policy.* and UserPolicy.*                               *)
(*   Spec          tokens, get_current_user and the protected handlers     *)
(*   SpecAuth      the login and register routes                           *)
(*   SpecHttp      the middleware stack, the rate limiter and the error    *)
(*                 handlers                                                *)
(*   SpecSession   requests of logged-in users on the users and files      *)
(*                 routes                                                  *)
(***************************************************************************)
EXTENDS Integers, Sequences, FiniteSets, TLC

VARIABLES
    pwd,        \* password store: last hash made and last verification
    pol,        \* last policy call and its outcome
    now,        \* wall clock, in ticks of 1/TicksPerSecond second
    users,      \* users table: the set of stored user rows
    issued,     \* tokens produced by create_access_token so far
    req,        \* the request in flight / last answered
    storage,    \* object storage: path -> content
    cache,      \* cache store: key -> value
    broadcasts, \* events handed to broadcast()
    jobs,       \* background jobs queued with .delay(), in order
    settings,   \* the Settings object and RateLimitMiddleware.use_redis
    redis,      \* Redis keys: key -> counter and expiry
    requests,   \* RateLimitMiddleware.requests: client address -> timestamps
    conns,      \* HTTP requests inside the middleware stack
    log,        \* HTTP requests answered, with what the rate limiter did
    resp,       \* the HTTP response sent last
    secmsg      \* last call of secure_error_message

\* the state of the middleware stack
mw == <<settings, redis, requests, conns, log, resp, secmsg>>

vars == <<pwd, pol, now, users, issued, req, storage, cache, broadcasts, jobs,
          settings, redis, requests, conns, log, resp, secmsg>>

None == "None"

(***************************************************************************)
(* Strings are sequences of Unicode code points; encoded strings are       *)
(* sequences of bytes.                                                     *)
(***************************************************************************)
Rep(c, n) == [i \in 1..n |-> c]

Take(s, n) == IF Len(s) <= n THEN s ELSE SubSeq(s, 1, n)

\* str.encode("utf-8") of one code point
Utf8Char(cp) ==
    IF cp < 128 THEN <<cp>>
    ELSE IF cp < 2048 THEN <<192 + (cp \div 64), 128 + (cp % 64)>>
    ELSE IF cp < 65536
         THEN <<224 + (cp \div 4096), 128 + ((cp \div 64) % 64), 128 + (cp % 64)>>
    ELSE <<240 + (cp \div 262144), 128 + ((cp \div 4096) % 64),
           128 + ((cp \div 64) % 64), 128 + (cp % 64)>>

\* str.encode("utf-8")
RECURSIVE Utf8Range(_, _, _)
Utf8Range(s, lo, hi) ==
    IF lo > hi THEN <<>>
    ELSE IF lo = hi THEN Utf8Char(s[lo])
    ELSE LET mid == (lo + hi) \div 2
         IN  Utf8Range(s, lo, mid) \o Utf8Range(s, mid + 1, hi)

Utf8Encode(s) == Utf8Range(s, 1, Len(s))

(***************************************************************************)
(* Password hashing                                                        *)
(***************************************************************************)
BCRYPT_MAX_LENGTH == 72

\* width of the stand-in digest function, in bits of state
DigestBits == 16

HexDigit(d) == IF d < 10 THEN 48 + d ELSE 87 + d

\* n < 16^7 as exactly k lower-case hexadecimal digits
HexStr(n, k) ==
    [i \in 1..k |-> IF k - i >= 7 THEN HexDigit(0)
                    ELSE HexDigit((n \div (16 ^ (k - i))) % 16)]

\* position-weighted sum of the bytes lo..hi
RECURSIVE DigestRange(_, _, _)
DigestRange(bytes, lo, hi) ==
    IF lo > hi THEN 0
    ELSE IF lo = hi THEN (lo * (bytes[lo] + 1)) % (2 ^ DigestBits)
    ELSE LET mid == (lo + hi) \div 2
         IN  (DigestRange(bytes, lo, mid) + DigestRange(bytes, mid + 1, hi))
                % (2 ^ DigestBits)

\* hashlib.sha256(b).hexdigest(): 64 hexadecimal characters that depend on
\* every byte of b.  The compression function is a stand-in of DigestBits
\* bits, so digests of different inputs can coincide.
Sha256Hex(bytes) == HexStr(DigestRange(bytes, 1, Len(bytes)), 64)

\* pwd_context.hash / pwd_context.verify with the bcrypt scheme: the secret
\* is encoded as UTF-8, bcrypt reads its first 72 bytes, and the result
\* carries the salt.  The key derivation itself is kept symbolic.
BcryptHash(salt, secret) ==
    [salt |-> salt, key |-> Take(Utf8Encode(secret), BCRYPT_MAX_LENGTH)]

BcryptVerify(secret, hashed) == BcryptHash(hashed.salt, secret) = hashed

PrepareNoPrehash(password) == password

PrepareLimitOffByOne(password) ==
    LET password_bytes == Utf8Encode(password)
    IN  IF Len(password_bytes) <= BCRYPT_MAX_LENGTH + 1
        THEN password
        ELSE Sha256Hex(password_bytes)

_prepare_password_for_bcrypt(password) ==
    LET password_bytes == Utf8Encode(password)
    IN  IF Len(password_bytes) <= BCRYPT_MAX_LENGTH
        THEN password
        ELSE Sha256Hex(password_bytes)

get_password_hash(password, salt) ==
    BcryptHash(salt, _prepare_password_for_bcrypt(password))

VerifyUnprepared(plain_password, hashed_password) ==
    BcryptVerify(plain_password, hashed_password)

verify_password(plain_password, hashed_password) ==
    BcryptVerify(_prepare_password_for_bcrypt(plain_password), hashed_password)

(***************************************************************************)
(* SpecPassword: a password is hashed with a fresh salt, then an attempt   *)
(* is verified against the stored hash.                                    *)
(***************************************************************************)
\* longest tail appended to a boundary-length head
MaxTail == 2

\* 'a' (1 byte in UTF-8) and 'e acute' (2 bytes)
PwChars == {97, 233}

RECURSIVE SeqsUpTo(_, _)
SeqsUpTo(S, n) ==
    IF n = 0 THEN {<<>>}
    ELSE LET shorter == SeqsUpTo(S, n - 1)
         IN  shorter \cup {<<c>> \o t : c \in S, t \in {u \in shorter : Len(u) = n - 1}}

\* heads around the bcrypt limit: empty, 71 and 72 one-byte characters,
\* 35 and 36 two-byte characters (70 and 72 bytes)
PwHeads ==
    { <<>>,
      Rep(97, BCRYPT_MAX_LENGTH - 1),
      Rep(97, BCRYPT_MAX_LENGTH),
      Rep(233, (BCRYPT_MAX_LENGTH \div 2) - 1),
      Rep(233, BCRYPT_MAX_LENGTH \div 2) }

PwTyped == {h \o t : h \in PwHeads, t \in SeqsUpTo(PwChars, MaxTail)}

\* what a user can type: the passwords above, and the 64 hexadecimal
\* characters that are the digest of a long one
PwInputs ==
    PwTyped \cup
    {Sha256Hex(Utf8Encode(p)) : p \in {x \in PwTyped : Len(Utf8Encode(x)) > BCRYPT_MAX_LENGTH}}

Salts == {"salt1", "salt2"}

IdlePwd == [phase |-> "off", plain |-> <<>>, salt |-> None, attempt |-> <<>>,
            hash |-> None, ok |-> None]

IdlePol == [phase |-> "off"]

\* Settings as config.py declares them; use_redis is what
\* RateLimitMiddleware.__init__ found when it pinged Redis
DefaultSettings == [APP_ENV |-> "local", APP_DEBUG |-> TRUE, use_redis |-> FALSE]

IdleSecmsg == [phase |-> "off"]

IdleResp == [id |-> 0]

\* no job queued, no HTTP request seen by the middleware stack
MwOff ==
    /\ settings = DefaultSettings
    /\ redis = {}
    /\ requests = {}
    /\ conns = {}
    /\ log = {}
    /\ resp = IdleResp
    /\ secmsg = IdleSecmsg

InitPassword ==
    /\ pwd \in {[phase |-> "new", plain |-> p, salt |-> s, attempt |-> q,
                 hash |-> None, ok |-> None] :
                    p \in PwInputs, s \in Salts, q \in PwInputs}
    /\ pol = IdlePol
    /\ now = 0
    /\ users = {}
    /\ issued = {}
    /\ req = [pc |-> "off"]
    /\ storage = {}
    /\ cache = {}
    /\ broadcasts = {}
    /\ jobs = <<>>
    /\ MwOff

\* get_password_hash(plain)
HashPassword ==
    /\ pwd.phase = "new"
    /\ pwd' = [pwd EXCEPT !.phase = "hashed",
                          !.hash = get_password_hash(pwd.plain, pwd.salt)]
    /\ UNCHANGED <<pol, now, users, issued, req, storage, cache, broadcasts, jobs, mw>>

\* verify_password(attempt, stored hash)
VerifyPassword ==
    /\ pwd.phase = "hashed"
    /\ pwd' = [pwd EXCEPT !.phase = "verified",
                          !.ok = verify_password(pwd.attempt, pwd.hash)]
    /\ UNCHANGED <<pol, now, users, issued, req, storage, cache, broadcasts, jobs, mw>>

NextPassword == HashPassword \/ VerifyPassword

SpecPassword == InitPassword /\ [][NextPassword]_vars

PwBytes(p) == Len(Utf8Encode(p))

\* C1: for every password p of any UTF-8 byte length (0, exactly 72, 73 and
\* longer included), verify_password(p, get_password_hash(p)) is true.
C1_VerifyOwnHash ==
    (pwd.phase = "verified" /\ pwd.attempt = pwd.plain) => pwd.ok = TRUE

\* C1 witness: a password longer than 72 bytes verified against its own hash
C1_Witness ==
    /\ pwd.phase = "verified"
    /\ pwd.attempt = pwd.plain
    /\ PwBytes(pwd.plain) = BCRYPT_MAX_LENGTH + 1
    /\ pwd.ok = TRUE

\* C2: two passwords that are both longer than 72 bytes, agree on their first
\* 72 bytes and have different SHA-256 digests do not verify against each
\* other's hash.
C2_LongPasswordsDistinguished ==
    ( /\ pwd.phase = "verified"
      /\ PwBytes(pwd.plain) > BCRYPT_MAX_LENGTH
      /\ PwBytes(pwd.attempt) > BCRYPT_MAX_LENGTH
      /\ Take(Utf8Encode(pwd.plain), BCRYPT_MAX_LENGTH)
            = Take(Utf8Encode(pwd.attempt), BCRYPT_MAX_LENGTH)
      /\ Sha256Hex(Utf8Encode(pwd.plain)) # Sha256Hex(Utf8Encode(pwd.attempt)) )
    => pwd.ok = FALSE

\* C2 witness: such a pair was checked and the attempt was refused
C2_Witness ==
    /\ pwd.phase = "verified"
    /\ PwBytes(pwd.plain) > BCRYPT_MAX_LENGTH
    /\ PwBytes(pwd.attempt) > BCRYPT_MAX_LENGTH
    /\ pwd.plain # pwd.attempt
    /\ Take(Utf8Encode(pwd.plain), BCRYPT_MAX_LENGTH)
          = Take(Utf8Encode(pwd.attempt), BCRYPT_MAX_LENGTH)
    /\ Sha256Hex(Utf8Encode(pwd.plain)) # Sha256Hex(Utf8Encode(pwd.attempt))
    /\ pwd.ok = FALSE

\* C16: _prepare_password_for_bcrypt returns the password unchanged when its
\* UTF-8 encoding is at most 72 bytes and the 64-character SHA-256 hex digest
\* of the encoded password otherwise, so what get_password_hash and
\* verify_password hand to bcrypt never exceeds 72 bytes.
C16_PreparedFitsBcrypt ==
    pwd.phase = "verified" =>
        /\ \A p \in {pwd.plain, pwd.attempt} :
              LET prepared == _prepare_password_for_bcrypt(p)
              IN  /\ PwBytes(p) <= BCRYPT_MAX_LENGTH => prepared = p
                  /\ PwBytes(p) > BCRYPT_MAX_LENGTH =>
                        prepared = Sha256Hex(Utf8Encode(p)) /\ Len(prepared) = 64
                  /\ PwBytes(prepared) <= BCRYPT_MAX_LENGTH
        \* bcrypt got the whole prepared password: nothing was cut off
        /\ pwd.hash.key = Utf8Encode(_prepare_password_for_bcrypt(pwd.plain))
        /\ pwd.ok = (Utf8Encode(_prepare_password_for_bcrypt(pwd.attempt)) = pwd.hash.key)

\* C16 witness: a 73-byte password was hashed through its 64-character
\* digest and a 72-byte attempt was verified as typed
C16_Witness ==
    /\ pwd.phase = "verified"
    /\ PwBytes(pwd.plain) = BCRYPT_MAX_LENGTH + 1
    /\ Len(pwd.hash.key) = 64
    /\ PwBytes(pwd.attempt) = BCRYPT_MAX_LENGTH
    /\ pwd.ok = FALSE

\* C23: a password of at most 72 bytes never verifies against the hash of a
\* different password that is longer than 72 bytes.
C23_ShortNeverMatchesLong ==
    ( /\ pwd.phase = "verified"
      /\ PwBytes(pwd.plain) > BCRYPT_MAX_LENGTH
      /\ PwBytes(pwd.attempt) <= BCRYPT_MAX_LENGTH
      /\ pwd.attempt # pwd.plain )
    => pwd.ok = FALSE

(***************************************************************************)
(* Policy layer (app/core/policies.py).  app/core/gates.py is not part of  *)
(* the sources: a Gate check is a verdict about the acting user, carried   *)
(* by the user row; owns_resource compares identifiers.                    *)
(***************************************************************************)
Gate_before(user) == user.before
Gate_can_view_users(user) == user.can_view_users
Gate_can_manage_users(user) == user.can_manage_users
Gate_is_active(user) == user.is_active
Gate_owns_resource(user, resource_user_id) == user.id = resource_user_id

\* the value of a policy check and the Gate checks it evaluated, in order
Checked(result, calls) == [result |-> result, calls |-> calls]

Policy_view_any(user) ==
    IF ~Gate_before(user) THEN Checked(FALSE, <<"before">>)
    ELSE Checked(Gate_can_view_users(user), <<"before", "can_view_users">>)

Policy_view(user, resource_user_id) ==
    IF ~Gate_before(user) THEN Checked(FALSE, <<"before">>)
    ELSE IF Gate_owns_resource(user, resource_user_id)
         THEN Checked(TRUE, <<"before", "owns_resource">>)
    ELSE Checked(Gate_can_view_users(user),
                 <<"before", "owns_resource", "can_view_users">>)

Policy_create(user) ==
    IF ~Gate_before(user) THEN Checked(FALSE, <<"before">>)
    ELSE Checked(Gate_is_active(user), <<"before", "is_active">>)

PolicyUpdateOwnerOnly(user, resource_user_id) ==
    IF ~Gate_before(user) THEN Checked(FALSE, <<"before">>)
    ELSE Checked(Gate_owns_resource(user, resource_user_id),
                 <<"before", "owns_resource">>)

Policy_update(user, resource_user_id) ==
    IF ~Gate_before(user) THEN Checked(FALSE, <<"before">>)
    ELSE IF Gate_owns_resource(user, resource_user_id)
         THEN Checked(TRUE, <<"before", "owns_resource">>)
    ELSE Checked(Gate_can_manage_users(user),
                 <<"before", "owns_resource", "can_manage_users">>)

PolicyDeleteNoGate(user, resource_user_id) ==
    IF Gate_owns_resource(user, resource_user_id)
    THEN Checked(TRUE, <<"owns_resource">>)
    ELSE Checked(Gate_can_manage_users(user), <<"owns_resource", "can_manage_users">>)

Policy_delete(user, resource_user_id) ==
    IF ~Gate_before(user) THEN Checked(FALSE, <<"before">>)
    ELSE IF Gate_owns_resource(user, resource_user_id)
         THEN Checked(TRUE, <<"before", "owns_resource">>)
    ELSE Checked(Gate_can_manage_users(user),
                 <<"before", "owns_resource", "can_manage_users">>)

PolicyOps == {"view_any", "view", "create", "update", "delete"}

Policy(op, user, resource_user_id) ==
    CASE op = "view_any" -> Policy_view_any(user)
      [] op = "view"     -> Policy_view(user, resource_user_id)
      [] op = "create"   -> Policy_create(user)
      [] op = "update"   -> Policy_update(user, resource_user_id)
      [] op = "delete"   -> Policy_delete(user, resource_user_id)

\* what a call hands back to its caller
Returned(value, calls) ==
    [kind |-> "return", value |-> value, exc |-> "none", status_code |-> 0,
     calls |-> calls]

\* raise HTTPException(status_code=...)
RaisedHTTP(status_code, calls) ==
    [kind |-> "raise", value |-> FALSE, exc |-> "HTTPException",
     status_code |-> status_code, calls |-> calls]

\* an exception that is not an HTTPException
RaisedError(exc, calls) ==
    [kind |-> "raise", value |-> FALSE, exc |-> exc, status_code |-> 0, calls |-> calls]

HTTP_401_UNAUTHORIZED == 401
HTTP_403_FORBIDDEN == 403

\* The overriding methods of UserPolicy are @staticmethod and call super()
\* without arguments.  Zero-argument super() binds to the first positional
\* parameter, here `user`: super(UserPolicy, user), which raises TypeError
\* unless that object is an instance of UserPolicy.
SuperBinds(first_arg) == first_arg.class = "UserPolicy"

\* UserPolicy.view_any / view / update / delete
UserPolicyOverride(op, user, resource_user_id) ==
    IF ~SuperBinds(user) THEN RaisedError("TypeError", <<>>)
    ELSE LET base == Policy(op, user, resource_user_id)
         IN  IF ~base.result THEN RaisedHTTP(HTTP_403_FORBIDDEN, base.calls)
             ELSE Returned(TRUE, base.calls)

\* UserPolicy does not override create: the call resolves to Policy.create
UserPolicy(op, user, resource_user_id) ==
    IF op = "create"
    THEN LET base == Policy_create(user) IN Returned(base.result, base.calls)
    ELSE UserPolicyOverride(op, user, resource_user_id)

(***************************************************************************)
(* SpecPolicy: policy checks called with any acting user and resource id.  *)
(***************************************************************************)
\* user identifiers run from 1 to MaxUserId
MaxUserId == 2

UserIds == 1..MaxUserId

\* the e-mail address and the password the stored user `id` signed up with
EmailOf(id) == <<"user", id, "@example.com">>
PasswordOf(id) == <<112, 119, 48 + id>>

UserRow(id, before, view_users, manage_users, active) ==
    [class |-> "User", id |-> id, before |-> before, can_view_users |-> view_users,
     can_manage_users |-> manage_users, is_active |-> active, profile |-> "p0",
     email |-> EmailOf(id),
     hashed_password |-> get_password_hash(PasswordOf(id), "salt1")]

AnyUser == {UserRow(i, b, v, m, a) : i \in UserIds, b \in BOOLEAN, v \in BOOLEAN,
                                     m \in BOOLEAN, a \in BOOLEAN}

InitPolicy ==
    /\ pol = IdlePol
    /\ pwd = IdlePwd
    /\ now = 0
    /\ users = {}
    /\ issued = {}
    /\ req = [pc |-> "off"]
    /\ storage = {}
    /\ cache = {}
    /\ broadcasts = {}
    /\ jobs = <<>>
    /\ MwOff

\* Policy.<op>(user, resource_user_id)
CallPolicy ==
    /\ \E op \in PolicyOps, u \in AnyUser, r \in UserIds :
         pol' = [phase |-> "called", cls |-> "Policy", op |-> op, user |-> u, rid |-> r,
                 out |-> LET c == Policy(op, u, r) IN Returned(c.result, c.calls)]
    /\ UNCHANGED <<pwd, now, users, issued, req, storage, cache, broadcasts, jobs, mw>>

\* UserPolicy.<op>(user, resource_user_id)
CallUserPolicy ==
    /\ \E op \in PolicyOps, u \in AnyUser, r \in UserIds :
         pol' = [phase |-> "called", cls |-> "UserPolicy", op |-> op, user |-> u,
                 rid |-> r, out |-> UserPolicy(op, u, r)]
    /\ UNCHANGED <<pwd, now, users, issued, req, storage, cache, broadcasts, jobs, mw>>

NextPolicy == CallPolicy \/ CallUserPolicy

SpecPolicy == InitPolicy /\ [][NextPolicy]_vars

PolCalled(cls, ops) == pol.phase = "called" /\ pol.cls = cls /\ pol.op \in ops

\* C7: when the global gate hook accepts the acting user, view, update and
\* delete are granted to the owner of the resource; update and delete are
\* refused to a non-owner without the manage-users privilege and granted to a
\* non-owner who holds it.
C7_OwnershipOrElevated ==
    (pol.phase = "called" /\ pol.cls = "Policy" /\ pol.user.before) =>
        /\ (pol.op \in {"view", "update", "delete"} /\ pol.user.id = pol.rid)
              => pol.out.value = TRUE
        /\ (pol.op \in {"update", "delete"} /\ pol.user.id # pol.rid)
              => pol.out.value = pol.user.can_manage_users

\* C7 witness: a non-owner holding the manage-users privilege was granted update
C7_Witness ==
    /\ PolCalled("Policy", {"update"})
    /\ pol.user.before
    /\ pol.user.id # pol.rid
    /\ pol.user.can_manage_users
    /\ pol.out.value = TRUE

\* C8: when the global gate hook rejects the user, every Policy operation
\* returns False, whoever owns the resource and whatever privilege the user
\* holds, and no operation-specific Gate check is evaluated.
C8_GateRejectionShortCircuits ==
    (pol.phase = "called" /\ pol.cls = "Policy" /\ ~pol.user.before) =>
        /\ pol.out.kind = "return"
        /\ pol.out.value = FALSE
        /\ pol.out.calls = <<"before">>

\* C8 witness: the gate rejected an owner who also holds the manage-users
\* privilege, and delete returned False
C8_Witness ==
    /\ PolCalled("Policy", {"delete"})
    /\ ~pol.user.before
    /\ pol.user.id = pol.rid
    /\ pol.user.can_manage_users
    /\ pol.out.value = FALSE

\* C9: on UserPolicy, a rejected check of any of the five operations reaches
\* the caller as a 403 error (not 401, not another error, not a returned
\* False) and an accepted check returns True.
C9_UserPolicyRaises403OrTrue ==
    (pol.phase = "called" /\ pol.cls = "UserPolicy") =>
        IF Policy(pol.op, pol.user, pol.rid).result
        THEN pol.out = Returned(TRUE, pol.out.calls)
        ELSE pol.out = RaisedHTTP(HTTP_403_FORBIDDEN, pol.out.calls)

(***************************************************************************)
(* Tokens (app/core/security.py).  Time is counted in ticks; a datetime    *)
(* becomes a JWT NumericDate by dropping the fraction of the second.       *)
(***************************************************************************)
\* clock resolution: ticks per second
TicksPerSecond == 2

\* settings.JWT_EXPIRATION, used as minutes
JWT_EXPIRATION == 3600

JWT_SECRET == "jwt-secret"
JWT_ALGORITHM == "HS256"

\* timedelta(minutes=m), in ticks
Minutes(m) == m * 60 * TicksPerSecond

\* calendar.timegm(dt.utctimetuple()): whole seconds since the epoch
Timegm(t) == t \div TicksPerSecond

\* str(n) for n >= 0
RECURSIVE IntToStr(_)
IntToStr(n) == IF n < 10 THEN <<48 + n>> ELSE IntToStr(n \div 10) \o <<48 + (n % 10)>>

\* the integer a string of decimal digits denotes
RECURSIVE StrToInt(_)
StrToInt(s) ==
    IF Len(s) = 1 THEN s[1] - 48
    ELSE StrToInt(SubSeq(s, 1, Len(s) - 1)) * 10 + (s[Len(s)] - 48)

\* expires_delta: None, or a timedelta of so many ticks
NoDelta == [given |-> FALSE, ticks |-> 0]
Delta(ticks) == [given |-> TRUE, ticks |-> ticks]

\* `if expires_delta:` -- None and timedelta(0) are both false
Truthy(expires_delta) == expires_delta.given /\ expires_delta.ticks # 0

\* the signature of a payload under a key (symbolic MAC)
Sign(secret, alg, payload) == [key |-> secret, alg |-> alg, msg |-> payload]

\* jwt.encode(claims, key, algorithm): a datetime exp becomes whole seconds
JwtEncode(claims, secret, alg) ==
    LET payload == [claims EXCEPT !.exp = Timegm(claims.exp)]
    IN  [alg |-> alg, payload |-> payload, sig |-> Sign(secret, alg, payload)]

CreateAccessTokenSeconds(subject, expires_delta, t) ==
    LET expire == IF Truthy(expires_delta)
                  THEN t + expires_delta.ticks
                  ELSE t + JWT_EXPIRATION * TicksPerSecond
        to_encode == [exp |-> expire, sub |-> IntToStr(subject)]
    IN  JwtEncode(to_encode, JWT_SECRET, JWT_ALGORITHM)

create_access_token(subject, expires_delta, t) ==
    LET expire == IF Truthy(expires_delta)
                  THEN t + expires_delta.ticks
                  ELSE t + Minutes(JWT_EXPIRATION)
        to_encode == [exp |-> expire, sub |-> IntToStr(subject)]
    IN  JwtEncode(to_encode, JWT_SECRET, JWT_ALGORITHM)

Decoded(ok, claims) == [ok |-> ok, claims |-> claims]

JwtDecodeUnverified(token, secret, algorithms, t) == Decoded(TRUE, token.payload)

\* jwt.decode(token, key, algorithms): JWTError (ok = FALSE) on an algorithm
\* that is not allowed, a signature that does not match, or exp < now
JwtDecode(token, secret, algorithms, t) ==
    IF token.alg \notin algorithms THEN Decoded(FALSE, token.payload)
    ELSE IF token.sig # Sign(secret, token.alg, token.payload)
         THEN Decoded(FALSE, token.payload)
    ELSE IF "exp" \in DOMAIN token.payload /\ token.payload.exp < Timegm(t)
         THEN Decoded(FALSE, token.payload)
    ELSE Decoded(TRUE, token.payload)

HTTP_404_NOT_FOUND == 404

\* User.get(db, id=user_id): the row with that id, if any; the id arrives as
\* the string of the sub claim
UserGet(db, user_id) == {u \in db : u.id = StrToInt(user_id)}

\* the outcome of resolving Depends(get_current_user)
AuthResult(status_code, user, lookups) ==
    [status_code |-> status_code, user |-> user, lookups |-> lookups]

GetCurrentUserNoSubCheck(db, token, t) ==
    LET d == JwtDecode(token, JWT_SECRET, {JWT_ALGORITHM}, t)
    IN  IF ~d.ok THEN AuthResult(HTTP_401_UNAUTHORIZED, {}, 0)
        ELSE LET user == IF "sub" \in DOMAIN d.claims THEN UserGet(db, d.claims.sub)
                         ELSE {}
             IN  IF user = {} THEN AuthResult(HTTP_404_NOT_FOUND, {}, 1)
                 ELSE AuthResult(0, user, 1)

GetCurrentUserAnyRow(db, token, t) ==
    LET d == JwtDecode(token, JWT_SECRET, {JWT_ALGORITHM}, t)
    IN  IF ~d.ok THEN AuthResult(HTTP_401_UNAUTHORIZED, {}, 0)
        ELSE IF "sub" \notin DOMAIN d.claims
             THEN AuthResult(HTTP_401_UNAUTHORIZED, {}, 0)
        ELSE IF db = {} THEN AuthResult(HTTP_404_NOT_FOUND, {}, 1)
        ELSE AuthResult(0, {CHOOSE u \in db : \A v \in db : u.id <= v.id}, 1)

get_current_user(db, token, t) ==
    LET d == JwtDecode(token, JWT_SECRET, {JWT_ALGORITHM}, t)
    IN  IF ~d.ok THEN AuthResult(HTTP_401_UNAUTHORIZED, {}, 0)
        ELSE IF "sub" \notin DOMAIN d.claims
             THEN AuthResult(HTTP_401_UNAUTHORIZED, {}, 0)
        ELSE LET user == UserGet(db, d.claims.sub)
             IN  IF user = {} THEN AuthResult(HTTP_404_NOT_FOUND, {}, 1)
                 ELSE AuthResult(0, user, 1)

\* OAuth2PasswordBearer answers 401 itself when the Authorization header
\* carries no bearer token; otherwise get_current_user gets the token
ResolveCurrentUser(db, bearer, t) ==
    IF bearer = {} THEN AuthResult(HTTP_401_UNAUTHORIZED, {}, 0)
    ELSE get_current_user(db, CHOOSE tok \in bearer : TRUE, t)

(***************************************************************************)
(* Collaborators that are not part of the sources: the users table, the    *)
(* cache store and the object storage, by the operations the handlers call *)
(***************************************************************************)
\* User.get(db, id=<int>)
UserGetById(db, id) == {u \in db : u.id = id}

\* User.update(db, db_obj=user, obj_in=user_in)
UserUpdate(db, user, user_in) ==
    (db \ UserGetById(db, user.id)) \cup {[user EXCEPT !.profile = user_in]}

\* db.delete(user); db.commit()
UserDelete(db, user) == db \ {user}

\* cache: a set of entries, at most one per key
CacheGet(c, key) == {e.value : e \in {x \in c : x.key = key}}
CachePut(c, key, value) == {e \in c : e.key # key} \cup {[key |-> key, value |-> value]}
CacheForget(c, key) == {e \in c : e.key # key}

\* f"user:{user_id}"
UserKey(user_id) == <<"user:", IntToStr(user_id)>>

\* storage: a set of files, at most one per path
StorageExists(st, path) == \E f \in st : f.path = path
StorageGet(st, path) == {f.content : f \in {x \in st : x.path = path}}
StoragePut(st, path, content) ==
    {f \in st : f.path # path} \cup {[path |-> path, content |-> content]}
StorageDelete(st, path) == {f \in st : f.path # path}
StorageCopy(st, from_path, to_path) ==
    {f \in st : f.path # to_path} \cup
    {[path |-> to_path, content |-> c] : c \in StorageGet(st, from_path)}
StorageMove(st, from_path, to_path) ==
    StorageDelete(StorageCopy(st, from_path, to_path), from_path)

\* f"uploads/{current_user.id}/{unique_filename}"
UploadPath(user_id, unique_filename) == <<"uploads", IntToStr(user_id), unique_filename>>

(***************************************************************************)
(* Spec: tokens are issued, time passes, requests arrive on the users and  *)
(* files routes; FastAPI resolves Depends(get_current_user) before it      *)
(* calls the handler.                                                      *)
(***************************************************************************)
\* tokens followed from their issuance
MaxIssued == 1

HTTP_200_OK == 200
HTTP_500_INTERNAL_SERVER_ERROR == 500

\* the instants at which the system is observed: every tick of the first
\* second, and every tick from one tick before the default lifetime ends
\* until a full second after the last token issued in the first second ends
Instants ==
    (0 .. (TicksPerSecond - 1)) \cup
    ((Minutes(JWT_EXPIRATION) - 1) .. (Minutes(JWT_EXPIRATION) + 2 * TicksPerSecond - 1))

\* subjects a token is issued for: the stored users and one id beyond them
Subjects == 1 .. (MaxUserId + 1)

DeltaInputs == {NoDelta, Delta(0), Delta(Minutes(JWT_EXPIRATION))}

\* the users table when the application starts
StoredAtStart ==
    {UserRow(i, TRUE, i = 1, i = 1, TRUE) : i \in UserIds}

UsersHandlers ==
    {"read_user_me", "update_user_me", "read_users", "read_user", "delete_user"}

FilesHandlers ==
    {"upload_file", "download_file", "get_file_info", "delete_file", "list_files",
     "copy_file", "move_file"}

Handlers == UsersHandlers \cup FilesHandlers

DependsExceptListFiles == Handlers \ {"list_files"}

\* the handlers whose signature declares Depends(get_current_user)
DependsOnCurrentUser == Handlers

\* uuid4() values
FileNames == {"uuid-1"}

FilePaths == {UploadPath(u, n) : u \in UserIds, n \in FileNames}

Profiles == {"p1"}

Arg(user_id, path, to_path, profile) ==
    [user_id |-> user_id, path |-> path, to_path |-> to_path, profile |-> profile]

\* the parameters a client can send to each handler
ArgsFor(h) ==
    CASE h \in {"read_user", "delete_user"} ->
            {Arg(i, <<>>, <<>>, "") : i \in Subjects}
      [] h = "update_user_me" ->
            {Arg(0, <<>>, <<>>, pr) : pr \in Profiles}
      [] h \in {"download_file", "get_file_info", "delete_file"} ->
            {Arg(0, f, <<>>, "") : f \in FilePaths}
      [] h \in {"copy_file", "move_file"} ->
            {Arg(0, f, t, "") : f \in FilePaths, t \in FilePaths}
      [] OTHER -> {Arg(0, <<>>, <<>>, "")}

\* an exp claim beyond every instant observed
FarFuture == Timegm(4 * Minutes(JWT_EXPIRATION))

Presented(kind, bearer) == [kind |-> kind, bearer |-> bearer]

\* what a client can put in the Authorization header: nothing, a token it was
\* issued, an issued token with its payload or signature altered, a token signed
\* with another secret or with no algorithm, and a token signed with the
\* server's secret that has no sub claim
PresentedTokens ==
    {Presented("missing", {})}
    \cup {Presented("issued", {i.token}) : i \in issued}
    \cup UNION {{Presented("altered_sub", {[i.token EXCEPT !.payload.sub = IntToStr(s)]}) :
                    s \in {x \in Subjects : IntToStr(x) # i.token.payload.sub}} :
                 i \in issued}
    \cup {Presented("altered_exp", {[i.token EXCEPT !.payload.exp = FarFuture]}) :
            i \in {x \in issued : x.token.payload.exp # FarFuture}}
    \cup {Presented("altered_sig", {[i.token EXCEPT !.sig.key = "corrupt"]}) : i \in issued}
    \cup {Presented("other_secret",
                    {[alg |-> JWT_ALGORITHM,
                      payload |-> [exp |-> FarFuture, sub |-> IntToStr(s)],
                      sig |-> Sign("not-the-jwt-secret", JWT_ALGORITHM,
                                   [exp |-> FarFuture, sub |-> IntToStr(s)])]}) :
            s \in Subjects}
    \cup {Presented("alg_none",
                    {[alg |-> "none",
                      payload |-> [exp |-> FarFuture, sub |-> IntToStr(s)],
                      sig |-> Sign("", "none", [exp |-> FarFuture, sub |-> IntToStr(s)])]}) :
            s \in Subjects}
    \cup {Presented("no_sub",
                    {[alg |-> JWT_ALGORITHM,
                      payload |-> [exp |-> FarFuture],
                      sig |-> Sign(JWT_SECRET, JWT_ALGORITHM, [exp |-> FarFuture])]})}

IdleReq ==
    [pc |-> "idle", handler |-> "none", kind |-> "none", bearer |-> {},
     arg |-> Arg(0, <<>>, <<>>, ""), at |-> 0, user |-> {}, status |-> 0,
     lookups |-> 0, ran |-> FALSE, content |-> {}]

Init ==
    /\ pwd = IdlePwd
    /\ pol = IdlePol
    /\ now = 0
    /\ users = StoredAtStart
    /\ issued = {}
    /\ req = IdleReq
    /\ storage = {}
    /\ cache = {}
    /\ broadcasts = {}
    /\ jobs = <<>>
    /\ MwOff

\* time passes
Tick ==
    /\ \E t \in Instants : t > now /\ now' = t
    /\ UNCHANGED <<pwd, pol, users, issued, req, storage, cache, broadcasts, jobs, mw>>

\* create_access_token(subject, expires_delta) is called
IssueToken ==
    /\ Cardinality(issued) < MaxIssued
    /\ now < TicksPerSecond
    /\ \E s \in Subjects, d \in DeltaInputs :
         issued' = issued \cup
            {[token |-> create_access_token(s, d, now), subject |-> s, at |-> now,
              delta |-> d]}
    /\ UNCHANGED <<pwd, pol, now, users, req, storage, cache, broadcasts, jobs, mw>>

\* a request arrives; the dependencies of its handler are resolved
Dispatch ==
    /\ req.pc = "idle"
    /\ \E h \in Handlers, p \in PresentedTokens :
        \E a \in ArgsFor(h) :
          /\ h = "upload_file" =>
                \E n \in FileNames : \A f \in storage : f.path[3] # n
          /\ LET r == IF h \in DependsOnCurrentUser
                      THEN ResolveCurrentUser(users, p.bearer, now)
                      ELSE AuthResult(0, {}, 0)
             IN  req' = [pc |-> IF r.status_code = 0 THEN "body" ELSE "done",
                         handler |-> h, kind |-> p.kind, bearer |-> p.bearer,
                         arg |-> a, at |-> now, user |-> r.user,
                         status |-> r.status_code, lookups |-> r.lookups,
                         ran |-> FALSE, content |-> {}]
    /\ UNCHANGED <<pwd, pol, now, users, issued, storage, cache, broadcasts, jobs, mw>>

\* the response has been sent; the worker takes the next request
Respond ==
    /\ req.pc = "done"
    /\ req' = IdleReq
    /\ UNCHANGED <<pwd, pol, now, users, issued, storage, cache, broadcasts, jobs, mw>>

InBody(h) == req.pc = "body" /\ req.handler = h

current_user == CHOOSE u \in req.user : TRUE

\* the response of a handler body
Answer(status, content) ==
    [req EXCEPT !.pc = "done", !.status = status, !.ran = TRUE, !.content = content]

\* an HTTPException becomes a response with its status code; any other
\* exception reaches global_exception_handler, which answers 500
StatusOf(out) ==
    IF out.exc = "HTTPException" THEN out.status_code
    ELSE HTTP_500_INTERNAL_SERVER_ERROR

(***************************************************************************)
(* Users routes (app/api/v1/controllers/users.py)                          *)
(***************************************************************************)
read_user_me ==
    /\ InBody("read_user_me")
    /\ req' = Answer(HTTP_200_OK, {})
    /\ UNCHANGED <<pwd, pol, now, users, issued, storage, cache, broadcasts, jobs, mw>>

update_user_me ==
    /\ InBody("update_user_me")
    /\ LET out == UserPolicy("update", current_user, current_user.id)
       IN  IF out.kind = "raise"
           THEN /\ req' = Answer(StatusOf(out), {})
                /\ UNCHANGED <<users, cache, broadcasts>>
           ELSE /\ users' = UserUpdate(users, current_user, req.arg.profile)
                /\ cache' = CacheForget(cache, UserKey(current_user.id))
                /\ broadcasts' = broadcasts \cup
                      {[event |-> "UserUpdated", user_id |-> current_user.id]}
                /\ req' = Answer(HTTP_200_OK, {})
    /\ UNCHANGED <<pwd, pol, now, issued, storage, jobs, mw>>

read_users ==
    /\ InBody("read_users")
    /\ LET out == UserPolicy("view_any", current_user, 0)
       IN  IF out.kind = "raise"
           THEN req' = Answer(StatusOf(out), {})
           ELSE req' = Answer(HTTP_200_OK, {})
    /\ UNCHANGED <<pwd, pol, now, users, issued, storage, cache, broadcasts, jobs, mw>>

read_user ==
    /\ InBody("read_user")
    /\ LET out == UserPolicy("view", current_user, req.arg.user_id)
           cache_key == UserKey(req.arg.user_id)
           cached == CacheGet(cache, cache_key)
           \* cache().remember(key, ttl, callback)
           user_data == IF cached # {} THEN cached
                        ELSE UserGetById(users, req.arg.user_id)
       IN  IF out.kind = "raise"
           THEN /\ req' = Answer(StatusOf(out), {})
                /\ UNCHANGED cache
           ELSE /\ cache' = IF user_data = {} THEN cache
                            ELSE CachePut(cache, cache_key,
                                          CHOOSE d \in user_data : TRUE)
                /\ IF user_data = {}
                   THEN req' = Answer(HTTP_404_NOT_FOUND, {})
                   ELSE req' = Answer(HTTP_200_OK, {})
    /\ UNCHANGED <<pwd, pol, now, users, issued, storage, broadcasts, jobs, mw>>

delete_user ==
    /\ InBody("delete_user")
    /\ LET user == UserGetById(users, req.arg.user_id)
       IN  IF user = {}
           THEN /\ req' = Answer(HTTP_404_NOT_FOUND, {})
                /\ UNCHANGED <<users, cache, broadcasts>>
           ELSE LET row == CHOOSE u \in user : TRUE
                    out == UserPolicy("delete", current_user, row.id)
                IN  IF out.kind = "raise"
                    THEN /\ req' = Answer(StatusOf(out), {})
                         /\ UNCHANGED <<users, cache, broadcasts>>
                    ELSE /\ cache' = CacheForget(cache, UserKey(req.arg.user_id))
                         /\ broadcasts' = broadcasts \cup
                               {[event |-> "UserDeleted", user_id |-> req.arg.user_id]}
                         /\ users' = UserDelete(users, row)
                         /\ req' = Answer(HTTP_200_OK, {})
    /\ UNCHANGED <<pwd, pol, now, issued, storage, jobs, mw>>

(***************************************************************************)
(* Files routes (app/api/v1/endpoints/files.py).  A storage call can fail; *)
(* the handlers turn a failure into a 500.                                 *)
(***************************************************************************)
upload_file ==
    /\ InBody("upload_file")
    /\ \E n \in FileNames, stored \in BOOLEAN :
         /\ \A f \in storage : f.path[3] # n
         /\ LET file_path == UploadPath(current_user.id, n)
            IN  IF stored
                THEN /\ storage' = StoragePut(storage, file_path, current_user.id)
                     /\ req' = Answer(HTTP_200_OK, {})
                ELSE /\ storage' = storage
                     /\ req' = Answer(HTTP_500_INTERNAL_SERVER_ERROR, {})
    /\ UNCHANGED <<pwd, pol, now, users, issued, cache, broadcasts, jobs, mw>>

download_file ==
    /\ InBody("download_file")
    /\ \E read \in BOOLEAN :
         IF ~read THEN req' = Answer(HTTP_500_INTERNAL_SERVER_ERROR, {})
         ELSE IF ~StorageExists(storage, req.arg.path)
              THEN req' = Answer(HTTP_404_NOT_FOUND, {})
         ELSE req' = Answer(HTTP_200_OK, StorageGet(storage, req.arg.path))
    /\ UNCHANGED <<pwd, pol, now, users, issued, storage, cache, broadcasts, jobs, mw>>

get_file_info ==
    /\ InBody("get_file_info")
    /\ \E read \in BOOLEAN :
         IF ~read THEN req' = Answer(HTTP_500_INTERNAL_SERVER_ERROR, {})
         ELSE IF ~StorageExists(storage, req.arg.path)
              THEN req' = Answer(HTTP_404_NOT_FOUND, {})
         ELSE req' = Answer(HTTP_200_OK, {})
    /\ UNCHANGED <<pwd, pol, now, users, issued, storage, cache, broadcasts, jobs, mw>>

delete_file ==
    /\ InBody("delete_file")
    /\ \E deleted \in BOOLEAN :
         IF ~StorageExists(storage, req.arg.path)
         THEN /\ req' = Answer(HTTP_404_NOT_FOUND, {})
              /\ storage' = storage
         ELSE IF ~deleted
              THEN /\ req' = Answer(HTTP_500_INTERNAL_SERVER_ERROR, {})
                   /\ storage' = storage
         ELSE /\ storage' = StorageDelete(storage, req.arg.path)
              /\ req' = Answer(HTTP_200_OK, {})
    /\ UNCHANGED <<pwd, pol, now, users, issued, cache, broadcasts, jobs, mw>>

list_files ==
    /\ InBody("list_files")
    /\ \E read \in BOOLEAN :
         IF ~read THEN req' = Answer(HTTP_500_INTERNAL_SERVER_ERROR, {})
         ELSE req' = Answer(HTTP_200_OK, {})
    /\ UNCHANGED <<pwd, pol, now, users, issued, storage, cache, broadcasts, jobs, mw>>

copy_file ==
    /\ InBody("copy_file")
    /\ \E copied \in BOOLEAN :
         IF ~StorageExists(storage, req.arg.path)
         THEN /\ req' = Answer(HTTP_404_NOT_FOUND, {})
              /\ storage' = storage
         ELSE IF ~copied
              THEN /\ req' = Answer(HTTP_500_INTERNAL_SERVER_ERROR, {})
                   /\ storage' = storage
         ELSE /\ storage' = StorageCopy(storage, req.arg.path, req.arg.to_path)
              /\ req' = Answer(HTTP_200_OK, {})
    /\ UNCHANGED <<pwd, pol, now, users, issued, cache, broadcasts, jobs, mw>>

move_file ==
    /\ InBody("move_file")
    /\ \E moved \in BOOLEAN :
         IF ~StorageExists(storage, req.arg.path)
         THEN /\ req' = Answer(HTTP_404_NOT_FOUND, {})
              /\ storage' = storage
         ELSE IF ~moved
              THEN /\ req' = Answer(HTTP_500_INTERNAL_SERVER_ERROR, {})
                   /\ storage' = storage
         ELSE /\ storage' = StorageMove(storage, req.arg.path, req.arg.to_path)
              /\ req' = Answer(HTTP_200_OK, {})
    /\ UNCHANGED <<pwd, pol, now, users, issued, cache, broadcasts, jobs, mw>>

Next ==
    \/ Tick
    \/ IssueToken
    \/ Dispatch
    \/ Respond
    \/ read_user_me
    \/ update_user_me
    \/ read_users
    \/ read_user
    \/ delete_user
    \/ upload_file
    \/ download_file
    \/ get_file_info
    \/ delete_file
    \/ list_files
    \/ copy_file
    \/ move_file

Spec == Init /\ [][Next]_vars

(***************************************************************************)
(* Claims about tokens and protected routes, under Spec                    *)
(***************************************************************************)
\* get_current_user has been resolved for the request in req
Resolved == req.pc \in {"body", "done"}

\* answered 401 by the dependency, before any handler body
Rejected401 ==
    req.pc = "done" /\ ~req.ran /\ req.status = HTTP_401_UNAUTHORIZED /\ req.user = {}

\* the request carries this issued token
Bears(i) == Resolved /\ req.kind = "issued" /\ req.bearer = {i.token}

Stored(id) == \E u \in users : u.id = id

\* the request carries an issued token that had not expired when it was checked
BearsUnexpired(i) == Bears(i) /\ Timegm(req.at) <= i.token.payload.exp

\* C3 as stated: a token from create_access_token(S) without explicit expiry
\* is accepted, resolving to the stored user S, at every time before
\* issue time + JWT_EXPIRATION minutes and rejected with 401 at every time
\* after it.
C3_Original ==
    \A i \in issued :
        (Bears(i) /\ i.delta = NoDelta /\ ~req.ran) =>
            /\ (req.at < i.at + Minutes(JWT_EXPIRATION) /\ Stored(i.subject))
                  => (req.pc = "body" /\ \A u \in req.user : u.id = i.subject)
            /\ (req.at > i.at + Minutes(JWT_EXPIRATION)) => Rejected401

\* C3 amended: such a token is accepted, resolving to the stored user S, at
\* every time before issue time + JWT_EXPIRATION minutes, and rejected with
\* 401 at every time from one second after that on (exp and the clock are
\* compared in whole seconds).
C3_DefaultExpiryWindow ==
    \A i \in issued :
        (Bears(i) /\ i.delta = NoDelta /\ ~req.ran) =>
            /\ (req.at < i.at + Minutes(JWT_EXPIRATION) /\ Stored(i.subject))
                  => (req.pc = "body" /\ \A u \in req.user : u.id = i.subject)
            /\ (req.at >= i.at + Minutes(JWT_EXPIRATION) + TicksPerSecond)
                  => Rejected401

\* C3 witness: a default-expiry token of a stored user, refused exactly one
\* second after issue time + JWT_EXPIRATION minutes
C3_Witness ==
    \E i \in issued :
        /\ Bears(i)
        /\ i.delta = NoDelta
        /\ Stored(i.subject)
        /\ req.at = i.at + Minutes(JWT_EXPIRATION) + TicksPerSecond
        /\ Rejected401

TamperedKinds == {"altered_sub", "altered_exp", "altered_sig", "other_secret"}

\* C4: a token whose payload or signature was altered after issuance, or that
\* was signed with another secret, is never accepted: the request ends in 401
\* and no user is returned.
C4_TamperedNeverAccepted ==
    (Resolved /\ req.kind \in TamperedKinds) => Rejected401

\* C4 witness: the token of a stored user, still unexpired, with its sub
\* rewritten to another stored user, was answered 401
C4_Witness ==
    /\ Rejected401
    /\ req.kind = "altered_sub"
    /\ \E i \in issued :
          /\ Stored(i.subject)
          /\ Timegm(req.at) <= i.token.payload.exp
          /\ \E tok \in req.bearer :
                /\ tok.sig = i.token.sig
                /\ Stored(StrToInt(tok.payload.sub))

\* C5: a correctly signed, unexpired token without sub is rejected with 401
\* (not 404, not success) before any user lookup.
C5_NoSubRejectedBeforeLookup ==
    (Resolved /\ req.kind = "no_sub") => (Rejected401 /\ req.lookups = 0)

\* C5 witness: such a token was presented and answered
C5_Witness ==
    /\ req.kind = "no_sub"
    /\ Rejected401
    /\ \E tok \in req.bearer :
          /\ tok.sig = Sign(JWT_SECRET, JWT_ALGORITHM, tok.payload)
          /\ "sub" \notin DOMAIN tok.payload
          /\ Timegm(req.at) <= tok.payload.exp

\* C6: for a token that passes the signature, expiry and subject checks,
\* get_current_user returns exactly the stored user whose id equals sub, and
\* answers 404 without reaching the handler body when no such user is stored;
\* a handler body never runs without a resolved user.
C6_ResolvesStoredUserOr404 ==
    /\ \A i \in issued :
          (BearsUnexpired(i) /\ ~req.ran) =>
              IF Stored(i.subject)
              THEN req.pc = "body" /\ req.user = UserGetById(users, i.subject)
              ELSE /\ req.pc = "done"
                   /\ req.status = HTTP_404_NOT_FOUND
                   /\ req.user = {}
    /\ (Resolved /\ req.ran) => req.user # {}

\* C6 witness: an unexpired token whose subject is not stored was answered
\* 404 after one lookup
C6_Witness ==
    \E i \in issued :
        /\ BearsUnexpired(i)
        /\ ~Stored(i.subject)
        /\ req.status = HTTP_404_NOT_FOUND
        /\ req.lookups = 1
        /\ ~req.ran

\* the bearer token is missing or does not validate
InvalidBearer ==
    /\ Resolved
    /\ \/ req.kind \in {"missing", "alg_none", "no_sub"} \cup TamperedKinds
       \/ req.kind = "issued" /\
            \E tok \in req.bearer : tok.payload.exp < Timegm(req.at)

C10_State ==
    /\ (Resolved /\ (req.pc = "body" \/ req.ran)) => req.user # {}
    /\ InvalidBearer => Rejected401

C10_Step ==
    InvalidBearer' => UNCHANGED <<users, cache, storage, broadcasts>>

\* C10: every handler of the users and files routes runs its body only after
\* get_current_user has returned a user; a request with a missing or invalid
\* bearer token is answered 401 and changes neither the database, the cache,
\* the storage nor the broadcasts.
C10_ProtectedRoutes == [](C10_State) /\ [][C10_Step]_vars

\* C10 witness: a delete_file request without a token was answered 401 while
\* the file it names is still stored
C10_Witness ==
    /\ req.handler = "delete_file"
    /\ req.kind = "missing"
    /\ Rejected401
    /\ StorageExists(storage, req.arg.path)

\* C15: for every explicit expires_delta passed to create_access_token, a
\* zero duration included, the exp claim of the token is the issue time plus
\* expires_delta (in whole seconds); only a call without a duration gets the
\* default lifetime.
C15_ExplicitExpiryHonoured ==
    \A i \in issued :
        /\ i.delta.given => i.token.payload.exp = Timegm(i.at + i.delta.ticks)
        /\ ~i.delta.given => i.token.payload.exp = Timegm(i.at + Minutes(JWT_EXPIRATION))

(***************************************************************************)
(* SpecAuth: the login and register routes                                 *)
(* (app/api/v1/controllers/auth.py), followed by requests to GET /users/me *)
(* that present the tokens login returned.                                 *)
(***************************************************************************)
HTTP_400_BAD_REQUEST == 400

\* User.authenticate(db, email=..., password=...): the user, or None
UserAuthenticate(db, email, password) ==
    {u \in db : u.email = email /\ verify_password(password, u.hashed_password)}

\* User.get_by_email(db, email=...)
UserGetByEmail(db, email) == {u \in db : u.email = email}

\* the id the database gives the next row
NextUserId(db) ==
    IF db = {} THEN 1
    ELSE (CHOOSE m \in {u.id : u \in db} : \A u \in db : u.id <= m) + 1

\* User.create(db, obj_in=user_in): the new row
UserCreate(db, user_in) ==
    [class |-> "User", id |-> NextUserId(db), before |-> TRUE,
     can_view_users |-> FALSE, can_manage_users |-> FALSE, is_active |-> TRUE,
     profile |-> user_in.profile, email |-> user_in.email,
     hashed_password |-> get_password_hash(user_in.password, "salt2")]

\* what OAuth2PasswordRequestForm and UserCreate bodies can carry
Emails == {EmailOf(i) : i \in Subjects}
Passwords == {PasswordOf(i) : i \in UserIds}

LoginResult(status_code, user, token) ==
    [status_code |-> status_code, user |-> user, token |-> token]

LoginWithoutPassword(db, username, password, t) ==
    LET user == UserGetByEmail(db, username)
    IN  IF user = {} THEN LoginResult(HTTP_401_UNAUTHORIZED, {}, {})
        ELSE LET u == CHOOSE x \in user : TRUE
             IN  LoginResult(HTTP_200_OK, user,
                    {create_access_token(u.id, Delta(Minutes(JWT_EXPIRATION)), t)})

\* the body of login(db, form_data), called at time t
login_body(db, username, password, t) ==
    LET user == UserAuthenticate(db, username, password)
    IN  IF user = {} THEN LoginResult(HTTP_401_UNAUTHORIZED, {}, {})
        ELSE LET u == CHOOSE x \in user : TRUE
                 access_token_expires == Delta(Minutes(JWT_EXPIRATION))
             IN  LoginResult(HTTP_200_OK, user,
                    {create_access_token(u.id, access_token_expires, t)})

Form(email, password, profile) ==
    [email |-> email, password |-> password, profile |-> profile]

\* POST /auth/login
login ==
    /\ req.pc = "idle"
    /\ \E e \in Emails, p \in Passwords :
         LET out == login_body(users, e, p, now)
         IN  /\ out.token # {} => (Cardinality(issued) < MaxIssued /\ now < TicksPerSecond)
             /\ issued' = issued \cup
                   {[token |-> tok, subject |-> StrToInt(tok.payload.sub), at |-> now,
                     delta |-> Delta(Minutes(JWT_EXPIRATION))] : tok \in out.token}
             /\ req' = [IdleReq EXCEPT !.pc = "done", !.handler = "login",
                                       !.kind = "form", !.arg = Form(e, p, ""),
                                       !.at = now, !.user = out.user,
                                       !.status = out.status_code, !.ran = TRUE,
                                       !.content = out.token]
    /\ UNCHANGED <<pwd, pol, now, users, storage, cache, broadcasts, jobs, mw>>

Job(task, user_id) == [task |-> task, user_id |-> user_id]

Event(name, user_id) == [event |-> name, user_id |-> user_id]

\* where a collaborator call of register can raise
RegisterFailures == {"none", "create", "send_welcome_email", "process_user_data",
                     "broadcast"}

RegisterResult(status_code, created, queued, events) ==
    [status_code |-> status_code, created |-> created, queued |-> queued,
     events |-> events]

RegisterDispatchFirst(db, user_in, fail_at) ==
    LET user == UserGetByEmail(db, user_in.email)
        new == UserCreate(db, user_in)
        queued == <<Job("send_welcome_email", new.id), Job("process_user_data", new.id)>>
    IN  IF user # {}
        THEN RegisterResult(HTTP_400_BAD_REQUEST, {}, queued, {})
        ELSE RegisterResult(HTTP_200_OK, {new}, queued, {Event("UserCreated", new.id)})

\* the body of register(db, user_in); fail_at names the call that raises
register_body(db, user_in, fail_at) ==
    LET user == UserGetByEmail(db, user_in.email)
        new == UserCreate(db, user_in)
        welcome == <<Job("send_welcome_email", new.id)>>
        process == <<Job("process_user_data", new.id)>>
        event == {Event("UserCreated", new.id)}
    IN  IF user # {}
        THEN RegisterResult(HTTP_400_BAD_REQUEST, {}, <<>>, {})
        ELSE IF fail_at = "create"
        THEN RegisterResult(HTTP_500_INTERNAL_SERVER_ERROR, {}, <<>>, {})
        ELSE IF fail_at = "send_welcome_email"
        THEN RegisterResult(HTTP_500_INTERNAL_SERVER_ERROR, {new}, <<>>, {})
        ELSE IF fail_at = "process_user_data"
        THEN RegisterResult(HTTP_500_INTERNAL_SERVER_ERROR, {new}, welcome, {})
        ELSE IF fail_at = "broadcast"
        THEN RegisterResult(HTTP_500_INTERNAL_SERVER_ERROR, {new}, welcome \o process, {})
        ELSE RegisterResult(HTTP_200_OK, {new}, welcome \o process, event)

\* POST /auth/register
register ==
    /\ req.pc = "idle"
    /\ \E e \in Emails, p \in Passwords, pr \in Profiles, f \in RegisterFailures :
         LET out == register_body(users, Form(e, p, pr), f)
         IN  /\ \A u \in out.created : u.id \in Subjects
             /\ users' = users \cup out.created
             /\ jobs' = jobs \o out.queued
             /\ broadcasts' = broadcasts \cup out.events
             /\ req' = [IdleReq EXCEPT !.pc = "done", !.handler = "register",
                                       !.kind = "form", !.arg = Form(e, p, pr),
                                       !.at = now, !.user = out.created,
                                       !.status = out.status_code, !.ran = TRUE]
    /\ UNCHANGED <<pwd, pol, now, issued, storage, cache, mw>>

\* GET /users/me arrives with some Authorization header
DispatchMe == Dispatch /\ req'.handler = "read_user_me"

NextAuth ==
    \/ Tick
    \/ login
    \/ register
    \/ DispatchMe
    \/ read_user_me
    \/ Respond

SpecAuth == Init /\ [][NextAuth]_vars

LoginAnswered == req.pc = "done" /\ req.handler = "login"

\* a GET /users/me request that carried a token login returned
BearsLoginToken == req.pc # "idle" /\ req.handler = "read_user_me" /\ req.kind = "issued"

C11_State ==
    /\ LoginAnswered =>
         LET accepted == UserAuthenticate(users, req.arg.email, req.arg.password)
         IN  IF accepted = {}
             THEN req.status = HTTP_401_UNAUTHORIZED /\ req.content = {} /\ req.user = {}
             ELSE /\ req.status = HTTP_200_OK
                  /\ req.user = accepted
                  /\ Cardinality(req.content) = 1
                  /\ \A tok \in req.content :
                       /\ \A u \in accepted : tok.payload.sub = IntToStr(u.id)
                       /\ \A t \in Instants :
                            (t >= req.at /\ Timegm(t) < tok.payload.exp)
                               => get_current_user(users, tok, t) = AuthResult(0, accepted, 1)
    /\ BearsLoginToken =>
         \A tok \in req.bearer :
            Timegm(req.at) < tok.payload.exp =>
               /\ req.status \in {0, HTTP_200_OK}
               /\ req.user = UserGetById(users, StrToInt(tok.payload.sub))
               /\ req.user # {}

C11_Step ==
    (req.pc = "idle" /\ req'.handler = "login" /\ req'.status = HTTP_401_UNAUTHORIZED)
        => issued' = issued

\* C11: login with a pair that User.authenticate accepts returns 200 with
\* that user and a token whose sub is the user's id, and the token presented
\* to get_current_user before it expires resolves to the same user; login
\* with a pair that authenticate rejects returns 401 and issues no token.
C11_LoginRoundTrip == [](C11_State) /\ [][C11_Step]_vars

\* C11 witness: a token returned by login was presented one tick before its
\* exp and GET /users/me answered 200 for the user who logged in
C11_Witness ==
    /\ req.pc = "done"
    /\ req.handler = "read_user_me"
    /\ req.kind = "issued"
    /\ req.status = HTTP_200_OK
    /\ req.at = Minutes(JWT_EXPIRATION) - 1
    /\ \E i \in issued : req.bearer = {i.token} /\ \A u \in req.user : u.id = i.subject

C14_State ==
    /\ \A i \in 1..Len(jobs) : UserGetById(users, jobs[i].user_id) # {}
    /\ \A e \in broadcasts :
          e.event = "UserCreated" => UserGetById(users, e.user_id) # {}

C14_Step ==
    LET created == users' \ users
        queued == SubSeq(jobs', Len(jobs) + 1, Len(jobs'))
        events == broadcasts' \ broadcasts
    IN  /\ Len(jobs') >= Len(jobs)
        /\ SubSeq(jobs', 1, Len(jobs)) = jobs
        /\ (queued # <<>> \/ events # {}) =>
              /\ req'.handler = "register"
              /\ Cardinality(created) = 1
              /\ \A u \in created :
                    /\ u.email = req'.arg.email
                    /\ UserGetById(users, u.id) = {}
                    /\ \A i \in 1..Len(queued) : queued[i].user_id = u.id
                    /\ \A e \in events : e = Event("UserCreated", u.id)
        /\ (req.pc = "idle" /\ req'.handler = "register"
                /\ req'.status = HTTP_400_BAD_REQUEST)
              => UNCHANGED <<users, jobs, broadcasts>>

\* C14: in register, the welcome-email job, the process-user-data job and the
\* UserCreated broadcast are dispatched only by a request that created the
\* user record, and carry that new user's id; a registration rejected with
\* 400 creates no user and dispatches no job and no event.
C14_RegisterDispatch == [](C14_State) /\ [][C14_Step]_vars

\* C14 witness: a registration answered 200 after queueing both jobs and the
\* event for the user it created
C14_Witness ==
    /\ req.pc = "done"
    /\ req.handler = "register"
    /\ req.status = HTTP_200_OK
    /\ Len(jobs) = 2
    /\ \A u \in req.user :
          /\ u \in users
          /\ jobs = <<Job("send_welcome_email", u.id), Job("process_user_data", u.id)>>
          /\ Event("UserCreated", u.id) \in broadcasts

(***************************************************************************)
(* SpecHttp: HTTP requests pass the middleware stack of app/__init__.py:   *)
(* RateLimitMiddleware (app/core/middlewares.py) first, then the other     *)
(* middlewares and the route; errors are answered by the exception         *)
(* handlers (app/core/error_handler.py).  Here time.time() is read in      *)
(* whole seconds: one step of `now` is one second.                         *)
(***************************************************************************)
\* Settings.RATE_LIMIT and Settings.RATE_LIMIT_WINDOW (seconds), scaled down
RATE_LIMIT == 2
RATE_LIMIT_WINDOW == 2

\* HTTP requests followed
MaxRequests == 3

HTTP_429_TOO_MANY_REQUESTS == 429

\* the clock stops when a window that started at second 0 has passed
HttpHorizon == RATE_LIMIT_WINDOW

\* request.client.host if request.client else "unknown"
ClientIps == {"10.0.0.1", "unknown"}

SettingsInputs ==
    {[APP_ENV |-> e, APP_DEBUG |-> d, use_redis |-> r] :
        e \in {"local", "production"}, d \in BOOLEAN, r \in BOOLEAN}

(***************************************************************************)
(* Redis, by the two commands the middleware sends                         *)
(***************************************************************************)
NoExpiry == -1

RedisLive(r, t) == {e \in r : e.expire_at = NoExpiry \/ t < e.expire_at}

RedisCount(r, key, t) ==
    LET live == {e \in RedisLive(r, t) : e.key = key}
    IN  IF live = {} THEN 0 ELSE (CHOOSE e \in live : TRUE).count

\* INCR key: atomic on the server; a missing or expired key counts from 0
RedisIncr(r, key, t) ==
    LET live == {e \in RedisLive(r, t) : e.key = key}
    IN  {e \in RedisLive(r, t) : e.key # key} \cup
        (IF live = {}
         THEN {[key |-> key, count |-> 1, expire_at |-> NoExpiry, since |-> t]}
         ELSE {[e EXCEPT !.count = e.count + 1] : e \in live})

\* EXPIRE key seconds
RedisExpire(r, key, seconds, t) ==
    {IF e.key = key THEN [e EXCEPT !.expire_at = t + seconds] ELSE e :
        e \in r}

\* f"rate_limit:{client_ip}"
RateLimitKey(client_ip) == <<"rate_limit:", client_ip>>

\* the Redis call that raises during one dispatch, if any
RedisFaults == {"none", "incr", "expire"}

(***************************************************************************)
(* RateLimitMiddleware.dispatch                                            *)
(***************************************************************************)
FreshHalfWindow(times, current_time) ==
    SelectSeq(times, LAMBDA t : current_time - t < RATE_LIMIT_WINDOW - 1)

\* [t for t in times if current_time - t < self.rate_limit_window]
Fresh(times, current_time) ==
    SelectSeq(times, LAMBDA t : current_time - t < RATE_LIMIT_WINDOW)

\* the dict comprehension over self.requests.items()
Pruned(reqs, current_time) ==
    {[e EXCEPT !.times = Fresh(e.times, current_time)] : e \in reqs}

TimesOf(reqs, client_ip) ==
    LET hit == {e \in reqs : e.ip = client_ip}
    IN  IF hit = {} THEN <<>> ELSE (CHOOSE e \in hit : TRUE).times

\* self.requests[client_ip].append(current_time), or = [current_time]
Recorded(reqs, client_ip, current_time) ==
    {e \in reqs : e.ip # client_ip} \cup
    {[ip |-> client_ip, times |-> Append(TimesOf(reqs, client_ip), current_time)]}

YieldsBeforeAppend == TRUE

\* whether dispatch awaits between its length check and its append
AwaitsBeforeAppend == FALSE

Limited(status_code, by, redis_step, memory_step, rds, reqs) ==
    [status_code |-> status_code, by |-> by, redis_step |-> redis_step,
     memory_step |-> memory_step, redis |-> rds, requests |-> reqs]

\* lines 84-100: the Redis counter.  status_code 429 is the early return, 0
\* means that dispatch goes on to the in-memory limiter
RedisStep(cfg, rds, client_ip, current_time, fault) ==
    IF ~cfg.use_redis THEN Limited(0, "none", "off", "none", rds, {})
    ELSE IF fault = "incr" THEN Limited(0, "none", "raised", "none", rds, {})
    ELSE LET key == RateLimitKey(client_ip)
             incremented == RedisIncr(rds, key, current_time)
             count == RedisCount(incremented, key, current_time)
         IN  IF count = 1 /\ fault = "expire"
             THEN Limited(0, "none", "expire_raised", "none", incremented, {})
             ELSE LET expiring == IF count = 1
                                  THEN RedisExpire(incremented, key, RATE_LIMIT_WINDOW,
                                                   current_time)
                                  ELSE incremented
                  IN  IF count > RATE_LIMIT
                      THEN Limited(HTTP_429_TOO_MANY_REQUESTS, "redis", "counted", "none",
                                   expiring, {})
                      ELSE Limited(0, "none", "counted", "none", expiring, {})

\* lines 102-118: the in-memory limiter, up to the append
MemoryCheck(reqs, client_ip, current_time) ==
    LET pruned == Pruned(reqs, current_time)
    IN  IF \E e \in pruned : e.ip = client_ip
        THEN IF Len(TimesOf(pruned, client_ip)) >= RATE_LIMIT
             THEN Limited(HTTP_429_TOO_MANY_REQUESTS, "memory", "none", "rejected", {}, pruned)
             ELSE Limited(0, "none", "none", "checked", {}, pruned)
        ELSE Limited(0, "none", "none", "checked", {}, pruned)

\* dispatch from its first line to `return await call_next(request)` or to
\* the 429 it returns
RateLimitDispatch(cfg, rds, reqs, client_ip, current_time, fault) ==
    LET r == RedisStep(cfg, rds, client_ip, current_time, fault)
    IN  IF r.status_code # 0
        THEN [r EXCEPT !.memory_step = "skipped", !.requests = reqs]
        ELSE LET m == MemoryCheck(reqs, client_ip, current_time)
             IN  [m EXCEPT !.redis_step = r.redis_step, !.redis = r.redis]

(***************************************************************************)
(* The middleware stack.  add_middleware and @app.middleware("http") put   *)
(* each middleware in front of those added before; Starlette wraps the     *)
(* result in ServerErrorMiddleware (outermost, runs the handler registered *)
(* for Exception) and ExceptionMiddleware (innermost, answers              *)
(* HTTPException).                                                         *)
(***************************************************************************)
AddedInOrder ==
    <<"CORSMiddleware", "add_security_headers", "add_request_id", "LoggingMiddleware",
      "RateLimitMiddleware">>

Reverse(seq) == [i \in 1..Len(seq) |-> seq[Len(seq) + 1 - i]]

\* outermost first
MiddlewareStack ==
    <<"ServerErrorMiddleware">> \o Reverse(AddedInOrder) \o <<"ExceptionMiddleware", "route">>

Depth(layer) == CHOOSE i \in 1..Len(MiddlewareStack) : MiddlewareStack[i] = layer

SecurityHeaders ==
    {"X-Content-Type-Options", "X-Frame-Options", "X-XSS-Protection", "Referrer-Policy",
     "Content-Security-Policy", "Permissions-Policy"}

\* the headers a middleware writes on a response that call_next returned
HeadersSetBy(layer) ==
    IF layer = "add_security_headers" THEN SecurityHeaders
    ELSE IF layer = "add_request_id" THEN {"X-Request-ID"}
    ELSE {}

\* a response made at `layer` travels out through the layers around it
HeadersOnResponseFrom(layer) ==
    UNION {HeadersSetBy(MiddlewareStack[i]) : i \in 1..(Depth(layer) - 1)}

\* str(e) of the exceptions raised below the handlers
Messages == {"disk /srv/a is full", "connection to 10.0.0.9 refused"}

Body(detail, type, traceback, request_id) ==
    [detail |-> detail, type |-> type, traceback |-> traceback, request_id |-> request_id]

\* global_exception_handler(request, exc)
global_exception_handler(cfg, request_id, exc_type, exc_msg) ==
    IF cfg.APP_ENV = "production"
    THEN Body(<<"An internal error occurred">>, "", <<>>, request_id)
    ELSE Body(<<exc_msg>>, exc_type,
              IF cfg.APP_DEBUG THEN <<"Traceback (most recent call last)", exc_msg>>
              ELSE <<>>,
              request_id)

\* FastAPI(debug=settings.APP_DEBUG): with debug on, ServerErrorMiddleware
\* answers with the traceback page and does not call the handler
ServerErrorResponse(cfg, request_id, exc_type, exc_msg) ==
    IF cfg.APP_DEBUG
    THEN Body(<<"500 Server Error", exc_msg>>, exc_type,
              <<"Traceback (most recent call last)", exc_msg>>, 0)
    ELSE global_exception_handler(cfg, request_id, exc_type, exc_msg)

\* except Exception as e: raise HTTPException(500, detail=f"... failed: {str(e)}")
FileEndpointFailure(exc_msg) == Body(<<"Upload failed: ", exc_msg>>, "", <<>>, 0)

\* what the route does with a request that reached it
RouteOutcomes ==
    {[kind |-> "ok", msg |-> ""], [kind |-> "http_exception", msg |-> ""]}
    \cup {[kind |-> k, msg |-> m] : k \in {"storage_failure", "unhandled"}, m \in Messages}

Response(status_code, layer, body) ==
    [status_code |-> status_code, layer |-> layer,
     headers |-> HeadersOnResponseFrom(layer), body |-> body]

\* the layers below RateLimitMiddleware, for one request
CallNext(cfg, request_id, outcome) ==
    CASE outcome.kind = "ok" ->
            Response(HTTP_200_OK, "route", Body(<<>>, "", <<>>, 0))
      [] outcome.kind = "http_exception" ->
            Response(HTTP_404_NOT_FOUND, "ExceptionMiddleware",
                     Body(<<"File not found">>, "", <<>>, 0))
      [] outcome.kind = "storage_failure" ->
            Response(HTTP_500_INTERNAL_SERVER_ERROR, "ExceptionMiddleware",
                     FileEndpointFailure(outcome.msg))
      [] outcome.kind = "unhandled" ->
            Response(HTTP_500_INTERNAL_SERVER_ERROR, "ServerErrorMiddleware",
                     ServerErrorResponse(cfg, request_id, "Exception", outcome.msg))

TooManyRequests ==
    Response(HTTP_429_TOO_MANY_REQUESTS, "RateLimitMiddleware",
             Body(<<"Too many requests">>, "", <<>>, 0))

(***************************************************************************)
(* secure_error_message                                                    *)
(***************************************************************************)
secure_error_message(cfg, error, default_message) ==
    IF cfg.APP_DEBUG THEN error ELSE default_message

DefaultMessages == {"An error occurred", "Upload failed", "Download failed"}

\* str(error): the texts above, the empty text, and a text that happens to
\* be a default message
ErrorTexts == Messages \cup {"", "An error occurred"}

(***************************************************************************)
(* Actions                                                                 *)
(***************************************************************************)
InitHttp ==
    /\ pwd = IdlePwd
    /\ pol = IdlePol
    /\ now = 0
    /\ users = {}
    /\ issued = {}
    /\ req = [pc |-> "off"]
    /\ storage = {}
    /\ cache = {}
    /\ broadcasts = {}
    /\ jobs = <<>>
    /\ settings \in SettingsInputs
    /\ redis = {}
    /\ requests = {}
    /\ conns = {}
    /\ log = {}
    /\ resp = IdleResp
    /\ secmsg = IdleSecmsg

app == <<pwd, pol, users, issued, req, storage, cache, broadcasts, jobs>>

\* time.time() advances
Clock ==
    /\ now < HttpHorizon
    /\ now' = now + 1
    /\ UNCHANGED <<app, settings, redis, requests, conns, log, resp, secmsg>>

Seen == conns \cup log

Conn(id, ip, at, pc, lim) ==
    [id |-> id, ip |-> ip, at |-> at, pc |-> pc, by |-> lim.by,
     redis_step |-> lim.redis_step, memory_step |-> lim.memory_step]

Answered(c) == [c EXCEPT !.pc = "answered"]

Sent(c, outcome, response) == [id |-> c.id, outcome |-> outcome, response |-> response]

NoOutcome == [kind |-> "none", msg |-> ""]

\* RateLimitMiddleware.dispatch runs for a request until it awaits or returns
rate_limit_dispatch ==
    /\ \E c \in {x \in conns : x.pc = "checked"} \cup
                {[id |-> Cardinality(Seen) + 1, ip |-> ip, at |-> now, pc |-> "new"] :
                    ip \in IF Cardinality(Seen) < MaxRequests THEN ClientIps ELSE {}} :
         IF c.pc = "checked"
         THEN \* resumed after the check: the append
              /\ requests' = Recorded(requests, c.ip, c.at)
              /\ conns' = (conns \ {c}) \cup
                          {[c EXCEPT !.pc = "call_next", !.memory_step = "counted"]}
              /\ UNCHANGED <<redis, log, resp>>
         ELSE \E fault \in IF settings.use_redis THEN RedisFaults ELSE {"none"} :
              LET lim == RateLimitDispatch(settings, redis, requests, c.ip, now, fault)
              IN  /\ redis' = lim.redis
                  /\ IF lim.status_code # 0
                     THEN /\ requests' = lim.requests
                          /\ log' = log \cup {Conn(c.id, c.ip, now, "answered", lim)}
                          /\ resp' = Sent(c, NoOutcome, TooManyRequests)
                          /\ UNCHANGED conns
                     ELSE IF AwaitsBeforeAppend
                     THEN /\ requests' = lim.requests
                          /\ conns' = conns \cup {Conn(c.id, c.ip, now, "checked", lim)}
                          /\ UNCHANGED <<log, resp>>
                     ELSE /\ requests' = Recorded(lim.requests, c.ip, now)
                          /\ conns' = conns \cup
                                {Conn(c.id, c.ip, now, "call_next",
                                      [lim EXCEPT !.memory_step = "counted"])}
                          /\ UNCHANGED <<log, resp>>
    /\ UNCHANGED <<app, now, settings, secmsg>>

\* await call_next(request): the inner middlewares and the route answer
CallNextWith(outcomes) ==
    /\ \E c \in {x \in conns : x.pc = "call_next"}, outcome \in outcomes :
         /\ conns' = conns \ {c}
         /\ log' = log \cup {Answered(c)}
         /\ resp' = Sent(c, outcome, CallNext(settings, c.id, outcome))
    /\ UNCHANGED <<app, now, settings, redis, requests, secmsg>>

call_next == CallNextWith(RouteOutcomes)

\* the same, for a route that answers 200
call_next_ok == CallNextWith({[kind |-> "ok", msg |-> ""]})

\* secure_error_message(error, default_message) is called
call_secure_error_message ==
    /\ \E error \in ErrorTexts, default_message \in DefaultMessages :
         secmsg' = [phase |-> "called", error |-> error,
                    default_message |-> default_message,
                    result |-> secure_error_message(settings, error, default_message)]
    /\ UNCHANGED <<app, now, settings, redis, requests, conns, log, resp>>

\* requests that arrive within the same second
NextHttp ==
    \/ rate_limit_dispatch
    \/ call_next

SpecHttp == InitHttp /\ [][NextHttp]_vars

\* SpecRateLimit: the rate limiter in front of routes that answer 200, with
\* and without Redis
InitRateLimit == InitHttp /\ settings.APP_ENV = "local" /\ settings.APP_DEBUG

NextRateLimit ==
    \/ Clock
    \/ rate_limit_dispatch
    \/ call_next_ok

SpecRateLimit == InitRateLimit /\ [][NextRateLimit]_vars

\* SpecErrors: secure_error_message under every combination of settings
NextErrors == call_secure_error_message

SpecErrors == InitHttp /\ [][NextErrors]_vars

(***************************************************************************)
(* Properties of the rate limiter (SpecRateLimit)                          *)
(***************************************************************************)
\* the requests RateLimitMiddleware handed to call_next
Passed == {c \in Seen : c.pc = "call_next" \/ (c.pc = "answered" /\ c.by = "none")}

PassedBetween(ip, from, until) ==
    {c \in Passed : c.ip = ip /\ from <= c.at /\ c.at < until}

\* the requests whose INCR reached Redis
Incremented(ip) ==
    {c \in Seen : c.ip = ip /\ c.redis_step \in {"counted", "expire_raised"}}

\* C12: under any interleaving of concurrent requests of one client address
\* the read-check-record step on its counter is atomic: every request passed
\* downstream within the current window is in the in-memory log, every INCR
\* is in the Redis counter, and never more than RATE_LIMIT requests of the
\* address are passed downstream within the window, with and without Redis.
C12_CountingIsSerialized ==
    \A ip \in ClientIps :
        LET recent == PassedBetween(ip, now - RATE_LIMIT_WINDOW + 1, now + 1)
        IN  /\ Cardinality(recent) <= RATE_LIMIT
            /\ Cardinality(recent) = Len(Fresh(TimesOf(requests, ip), now))
            /\ \A c \in conns : c.pc = "call_next"
            /\ \A e \in RedisLive(redis, now) :
                  e.key = RateLimitKey(ip) =>
                     e.count = Cardinality({c \in Incremented(ip) : c.at >= e.since})

\* C12 witness: with Redis in use, RATE_LIMIT requests of one address are in
\* flight downstream at the same second and a further one was answered 429
C12_Witness ==
    /\ settings.use_redis
    /\ \E ip \in ClientIps :
          /\ Cardinality({c \in conns : c.ip = ip /\ c.pc = "call_next" /\ c.at = now})
                = RATE_LIMIT
          /\ \E e \in log : e.ip = ip /\ e.at = now /\ e.by = "redis"
          /\ RedisCount(redis, RateLimitKey(ip), now) = RATE_LIMIT + 1

\* C13: for every client address and every half-open interval of
\* RATE_LIMIT_WINDOW seconds at most RATE_LIMIT requests of the address are
\* passed downstream; a request that arrives when RATE_LIMIT requests of its
\* address passed within the window before it is answered 429 and does not
\* reach the application.
C13_SlidingWindowBound ==
    /\ \A ip \in ClientIps, a \in 0..HttpHorizon :
          Cardinality(PassedBetween(ip, a, a + RATE_LIMIT_WINDOW)) <= RATE_LIMIT
    /\ \A c \in Seen :
          Cardinality({q \in PassedBetween(c.ip, c.at - RATE_LIMIT_WINDOW + 1, c.at + 1) :
                          q.id < c.id}) >= RATE_LIMIT
             => (c.pc = "answered" /\ c.by # "none")
    /\ \A c \in conns : c.by = "none"
    /\ \A c \in log :
          (c.by # "none" /\ resp.id = c.id) =>
             (resp.response = TooManyRequests /\ resp.outcome = NoOutcome)

\* C13 witness: without Redis, two requests of an address passed at seconds 0
\* and 1, and a third one at second 1 was answered 429 by the in-memory log
C13_Witness ==
    /\ ~settings.use_redis
    /\ \E c \in log :
          /\ c.by = "memory"
          /\ c.at = 1
          /\ resp.id = c.id
          /\ resp.response.status_code = HTTP_429_TOO_MANY_REQUESTS
          /\ \E q \in PassedBetween(c.ip, 0, 1) : q.id < c.id
          /\ \E q \in PassedBetween(c.ip, 1, 2) : q.id < c.id

\* C20: the in-memory request log is consulted and updated only for requests
\* for which Redis is not in use or the Redis call raised; a request that
\* Redis counted and admitted is not counted or rejected by the in-memory
\* limiter as well.
C20_MemoryOnlyAsFallback ==
    \A c \in Seen :
        (c.redis_step = "counted" /\ c.by # "redis")
           => c.memory_step \notin {"checked", "counted", "rejected"}

(***************************************************************************)
(* Properties of the responses (SpecHttp) and of secure_error_message      *)
(* (SpecErrors)                                                            *)
(***************************************************************************)
\* C17: every HTTP response the application sends, the 429 of
\* RateLimitMiddleware and the 500 of the global exception handler included,
\* carries the security headers set by add_security_headers.
C17_SecurityHeadersOnEveryResponse ==
    resp.id # 0 => SecurityHeaders \subseteq resp.response.headers

\* C18: with APP_ENV = 'production' the body of every 500 response is the
\* same whatever the text of the exception that caused it, for unhandled
\* exceptions and for storage failures inside the file endpoints.
C18_ErrorBodyIndependentOfText ==
    (settings.APP_ENV = "production" /\ resp.id # 0
        /\ resp.response.status_code = HTTP_500_INTERNAL_SERVER_ERROR)
    => \A m \in Messages :
          CallNext(settings, resp.id, [resp.outcome EXCEPT !.msg = m]).body
             = resp.response.body

\* C19: secure_error_message(error, default_message) returns default_message,
\* never str(error), whenever APP_ENV = 'production', for every combination
\* of the other settings.
C19_DefaultMessageInProduction ==
    (secmsg.phase = "called" /\ settings.APP_ENV = "production")
    => /\ secmsg.result = secmsg.default_message
       /\ secmsg.error # secmsg.default_message => secmsg.result # secmsg.error

(***************************************************************************)
(* SpecSession: every stored user has logged in; requests with any         *)
(* Authorization header arrive on the users and files routes, one after    *)
(* the other.                                                              *)
(***************************************************************************)
\* the tokens POST /auth/login returned to the stored users at time 0
LoggedIn ==
    UNION {{[token |-> tok, subject |-> u.id, at |-> 0,
             delta |-> Delta(Minutes(JWT_EXPIRATION))] :
               tok \in login_body(StoredAtStart, u.email, PasswordOf(u.id), 0).token} :
           u \in StoredAtStart}

InitSession ==
    /\ pwd = IdlePwd
    /\ pol = IdlePol
    /\ now = 0
    /\ users = StoredAtStart
    /\ issued = LoggedIn
    /\ req = IdleReq
    /\ storage = {}
    /\ cache = {}
    /\ broadcasts = {}
    /\ jobs = <<>>
    /\ MwOff

NextSession ==
    \/ Dispatch
    \/ Respond
    \/ read_user_me
    \/ update_user_me
    \/ read_users
    \/ read_user
    \/ delete_user
    \/ upload_file
    \/ download_file
    \/ get_file_info
    \/ delete_file
    \/ list_files
    \/ copy_file
    \/ move_file

SpecSession == InitSession /\ [][NextSession]_vars

\* a request on handler h whose body has run and whose response is ready
Ran(h) == req.pc = "done" /\ req.handler = h /\ req.ran

\* the file at this path was uploaded by this user: uploads/<user.id>/...
OwnedBy(path, user) == path[2] = IntToStr(user.id)

C24_SameAnswerWhateverExists ==
    /\ ( Ran("read_user") /\ ~Policy("view", current_user, req.arg.user_id).result )
       => req.status = HTTP_403_FORBIDDEN
    /\ ( Ran("delete_user") /\ ~Policy("delete", current_user, req.arg.user_id).result )
       => req.status = HTTP_403_FORBIDDEN

\* C25: a file stored under uploads/A/ is served, deleted, copied or moved
\* only for requests authenticated as A: a download answers a user with
\* content that user uploaded, and a file request leaves every file of the
\* other users stored and unchanged.
C25_State ==
    (Ran("download_file") /\ req.status = HTTP_200_OK)
       => \A c \in req.content : c = current_user.id

C25_Step ==
    (req.pc = "body" /\ req.handler \in FilesHandlers /\ req'.pc = "done")
       => \A f \in storage : ~OwnedBy(f.path, current_user) => f \in storage'

C25_PerUserFileIsolation == [](C25_State) /\ [][C25_Step]_vars

====
